---- MODULE Spec2Model ----
(***************************************************************************)
(* A model of app.py: the Flask handlers of the random-playlist app, the   *)
(* module-level cache of one random batch of liked songs, the token kept   *)
(* in the browser session and the chunked playlist writer.                 *)
(*                                                                         *)
(* Every handler is one action.  The Spotify provider is the environment: *)
(* its answers (library contents, token lifetimes, failures) are chosen   *)
(* nondeterministically.  An optional Python value is a sequence of       *)
(* length 0 (None / key absent) or 1 (the value).                          *)
(***************************************************************************)
EXTENDS Integers, Sequences, FiniteSets, TLC

VARIABLES
    clock,      \* time.time(), in seconds
    library,    \* provider: the saved-tracks list of every user, newest first
    expires_in, \* provider: the lifetimes (expires_in) it gives the tokens it issues
    batch,      \* CACHED_RANDOM_BATCH: None or a list of track dicts
    stamp,      \* CACHED_RANDOM_TIMESTAMP
    session,    \* Flask session of every browser: token_info, preview_ids, pending_ids
    op,         \* the handler that ran last, the browser it ran for and how it ended
    size,       \* the size form field of the last /preview request
    calls,      \* the provider calls the last handler issued, in order
    ret,        \* what fetch_random_liked_songs returned to the last handler (None: not returned)
    entry,      \* what the last handler found when it started: the time, its session,
                \* the cache if it called fetch_random_liked_songs, and whether its
                \* browser was in saved
    saved,      \* the browsers whose last successful preview was followed by a
                \* successful confirmed save
    producer,   \* the call whose tracks list CACHED_RANDOM_BATCH holds: its browser
                \* and its now (None: nothing stored yet)
    thread      \* the /preview request each browser has in progress, when requests
                \* are interleaved statement by statement

vars == <<clock, library, expires_in, batch, stamp, session, op, size, calls, ret, entry,
          saved, producer, thread>>

----------------------------------------------------------------------------
(* Bounds of the model *)

StartClock == 1000
TickStep == 30
MaxTicks == 2
MaxIds == 250

(* Constants of the program *)

CACHE_EXPIRY_SECONDS == 60
REFRESH_MARGIN == 60
BATCH_SIZE == 500
PAGE_CAP == 50
MIN_FETCH == 50
CHUNK == 100
DEFAULT_SIZE == 10

----------------------------------------------------------------------------
(* Python values *)

None == <<>>
Some(x) == <<x>>
Get(opt, default) == IF opt = None THEN default ELSE opt[1]

Min(a, b) == IF a < b THEN a ELSE b

RECURSIVE Concat(_)
Concat(ss) == IF ss = <<>> THEN <<>> ELSE Head(ss) \o Concat(Tail(ss))

Range(s) == {s[i] : i \in 1..Len(s)}

----------------------------------------------------------------------------
(* The provider's catalogue.  A library item is a track id, or NullItem for *)
(* an item whose "track" is null.  Ids are unique within a library.        *)

NullItem == 0
TrackIds == 1..4

ArtistNames(id) ==
    CASE id = 1 -> <<"A">>
      [] id = 2 -> <<"A", "B">>
      [] id = 3 -> <<"A">>
      [] id = 4 -> <<"A, B">>
      [] OTHER  -> <<>>

TrackName(id) ==
    CASE id = 1 -> "n1" [] id = 2 -> "n2" [] id = 3 -> "n3" [] id = 4 -> "n4"
      [] OTHER -> "n"

Users == {"u1", "u2"}

Libraries == { <<>>, <<NullItem>>, <<1, 2, 3>>, <<4, 2>> }

(* ", ".join(names) *)
RECURSIVE Join(_)
Join(names) ==
    IF names = <<>> THEN ""
    ELSE IF Len(names) = 1 THEN names[1]
    ELSE names[1] \o ", " \o Join(Tail(names))

(* the dict fetch_random_liked_songs builds for one track *)
TrackDict(id) == [id |-> id, name |-> TrackName(id), artists |-> Join(ArtistNames(id))]

(* sp.current_user_saved_tracks(limit, offset): the items of one page *)
SavedTracksItems(u, limit, offset) ==
    SubSeq(library[u], offset + 1, Min(offset + limit, Len(library[u])))

SavedTracksTotal(u) == Len(library[u])

----------------------------------------------------------------------------
(* Tokens *)

(* token lifetimes: one inside the refresh margin, one outside *)
ShortLife == 30
TokenLife == 90

(* What SpotifyOAuth returns for an authorization or a refresh at time now. *)
(* An access token is a string the provider never repeats: here the user,  *)
(* the time of issue and a mark that differs from the mark of the token    *)
(* the session held before (prev).                                         *)
NewToken(u, now, e, prev) ==
    [access_token  |-> <<u, now, IF prev = None THEN 0 ELSE 1 - prev[1].access_token[3]>>,
     refresh_token |-> u,
     expires_at    |-> now + e]

TokenUser(tok) == tok.access_token[1]

(* a refresh margin that includes its end point *)
NeedsRefreshInclusive(tok, now) == tok.expires_at - now <= REFRESH_MARGIN

token_info_needs_refresh(tok, now) == tok.expires_at - now < REFRESH_MARGIN

(* the provider's possible answers to refresh_access_token: a rejection    *)
(* (None, the call raises) or a new token                                  *)
RefreshAnswers(tok, now) ==
    {None} \cup {Some(NewToken(tok.refresh_token, now, e, Some(tok))) : e \in expires_in}

(* a get_token that asks the provider again after a rejection *)
get_token_retrying(stored, now, answer) ==
    IF stored = None
    THEN [token |-> None, store |-> stored, calls |-> <<>>, raised |-> FALSE]
    ELSE IF token_info_needs_refresh(stored[1], now)
    THEN IF answer = None
         THEN [token |-> None, store |-> stored,
               calls |-> << <<"refresh", stored[1].refresh_token>>,
                            <<"refresh", stored[1].refresh_token>> >>, raised |-> TRUE]
         ELSE [token |-> answer, store |-> answer,
               calls |-> << <<"refresh", stored[1].refresh_token>> >>, raised |-> FALSE]
    ELSE [token |-> stored, store |-> stored, calls |-> <<>>, raised |-> FALSE]

(* get_token(): stored is session.get("token_info"), answer the provider's *)
(* answer should a refresh be issued.  token is the value returned, store  *)
(* the session's token_info afterwards.                                    *)
get_token(stored, now, answer) ==
    IF stored = None
    THEN [token |-> None, store |-> stored, calls |-> <<>>, raised |-> FALSE]
    ELSE IF token_info_needs_refresh(stored[1], now)
    THEN IF answer = None
         THEN [token |-> None, store |-> stored,
               calls |-> << <<"refresh", stored[1].refresh_token>> >>, raised |-> TRUE]
         ELSE [token |-> answer, store |-> answer,
               calls |-> << <<"refresh", stored[1].refresh_token>> >>, raised |-> FALSE]
    ELSE [token |-> stored, store |-> stored, calls |-> <<>>, raised |-> FALSE]

(* the answers a get_token call can meet *)
TokenAnswers(stored, now) ==
    IF stored # None /\ token_info_needs_refresh(stored[1], now)
    THEN RefreshAnswers(stored[1], now) ELSE {None}

----------------------------------------------------------------------------
(* fetch_random_liked_songs *)

(* Python truth of CACHED_RANDOM_BATCH: None and [] are both false *)
BatchTruthy(b) == b # None /\ Len(b[1]) > 0

(* a time-to-live that includes its end point *)
CacheHitInclusive(now) == BatchTruthy(batch) /\ now - stamp <= CACHE_EXPIRY_SECONDS

CacheHit(now) == BatchTruthy(batch) /\ now - stamp < CACHE_EXPIRY_SECONDS

(* a limit that ignores the size of the library *)
FetchLimitWindow(total, batch_size) == batch_size

FetchLimit(total, batch_size) ==
    IF total <= batch_size \/ total = 0
    THEN Min(batch_size, IF total > 0 THEN total ELSE MIN_FETCH)
    ELSE batch_size

(* a random offset that can be one past the last full window *)
FetchOffsetsPast(total, batch_size) ==
    IF total <= batch_size \/ total = 0 THEN {0} ELSE 0..(total - batch_size + 1)

FetchOffsets(total, batch_size) ==
    IF total <= batch_size \/ total = 0 THEN {0} ELSE 0..(total - batch_size)

(* the (limit, offset) of the page requests of the while loop *)
RECURSIVE Pages(_, _, _)
Pages(offset, limit, fetched) ==
    IF fetched < limit
    THEN LET b == Min(PAGE_CAP, limit - fetched)
         IN  << <<b, offset + fetched>> >> \o Pages(offset, limit, fetched + b)
    ELSE <<>>

(* the track dicts appended for the items of one page: null tracks skipped *)
RECURSIVE PageTracks(_)
PageTracks(items) ==
    IF items = <<>> THEN <<>>
    ELSE IF Head(items) = NullItem THEN PageTracks(Tail(items))
    ELSE <<TrackDict(Head(items))>> \o PageTracks(Tail(items))

FetchPages(u, offset) ==
    Pages(offset, FetchLimit(SavedTracksTotal(u), BATCH_SIZE), 0)

(* every provider call of a cache refresh: the size query, then the pages *)
FetchCalls(u, offset) ==
    << <<"saved_tracks", 1, 0>> >> \o
    [p \in 1..Len(FetchPages(u, offset)) |->
        <<"saved_tracks", FetchPages(u, offset)[p][1], FetchPages(u, offset)[p][2]>>]

FetchTracks(u, offset) ==
    Concat([p \in 1..Len(FetchPages(u, offset)) |->
        PageTracks(SavedTracksItems(u, FetchPages(u, offset)[p][1],
                                       FetchPages(u, offset)[p][2]))])

(* a refresh that stores the pages it has when a provider call raises *)
fetch_storing_partial(u, now, offset, failAt) ==
    IF CacheHit(now)
    THEN [raised |-> FALSE, tracks |-> batch[1], calls |-> <<>>,
          batch |-> batch, stamp |-> stamp]
    ELSE IF failAt > 0
    THEN [raised |-> TRUE, tracks |-> <<>>,
          calls |-> SubSeq(FetchCalls(u, offset), 1, failAt),
          batch |-> Some(Concat([p \in 1..(failAt - 2) |->
                        PageTracks(SavedTracksItems(u, FetchPages(u, offset)[p][1],
                                                       FetchPages(u, offset)[p][2]))])),
          stamp |-> now]
    ELSE [raised |-> FALSE, tracks |-> FetchTracks(u, offset),
          calls |-> FetchCalls(u, offset),
          batch |-> Some(FetchTracks(u, offset)), stamp |-> now]

(* fetch_random_liked_songs(sp, 500) for the user of sp at time now; offset *)
(* is the random offset, failAt the index of the provider call that raises *)
(* (0: none).  batch and stamp are the globals afterwards.                 *)
fetch_random_liked_songs(u, now, offset, failAt) ==
    IF CacheHit(now)
    THEN [raised |-> FALSE, tracks |-> batch[1], calls |-> <<>>,
          batch |-> batch, stamp |-> stamp]
    ELSE IF failAt > 0
    THEN [raised |-> TRUE, tracks |-> <<>>,
          calls |-> SubSeq(FetchCalls(u, offset), 1, failAt),
          batch |-> batch, stamp |-> stamp]
    ELSE [raised |-> FALSE, tracks |-> FetchTracks(u, offset),
          calls |-> FetchCalls(u, offset),
          batch |-> Some(FetchTracks(u, offset)), stamp |-> now]

(* the random offsets and failure points a call can meet *)
FetchChoices(u, now) ==
    IF CacheHit(now) THEN {<<0, 0>>}
    ELSE {<<o, f>> : o \in FetchOffsets(SavedTracksTotal(u), BATCH_SIZE),
                     f \in 0..(1 + Len(FetchPages(u, 0)))}

----------------------------------------------------------------------------
(* /preview helpers *)

FormSizes == {None, Some("abc"), Some("-1"), Some("0"), Some("1"), Some("2")}

(* int(text): None stands for ValueError *)
IntOf(text) ==
    CASE text = "-1" -> Some(0 - 1)
      [] text = "0"  -> Some(0)
      [] text = "1"  -> Some(1)
      [] text = "2"  -> Some(2)
      [] text = "10" -> Some(10)
      [] OTHER       -> None

(* int(request.form.get("size", 10)) *)
RequestedSize(form) == IF form = None THEN Some(DEFAULT_SIZE) ELSE IntOf(form[1])

(* the keys of the unique_artists dict: the positions of the songs whose   *)
(* artists string no earlier song has                                      *)
UniqueArtists(songs) ==
    {i \in 1..Len(songs) : \A j \in 1..(i - 1) : songs[j].artists # songs[i].artists}

(* list(unique_artists.values()): the first song of every artists string,  *)
(* in the order of the batch                                               *)
Filtered(songs) ==
    [k \in 1..Cardinality(UniqueArtists(songs)) |->
        songs[CHOOSE i \in UniqueArtists(songs) :
                Cardinality({j \in UniqueArtists(songs) : j <= i}) = k]]

(* random.sample(population, k) for 0 <= k <= len(population) *)
Samples(population, k) ==
    { [i \in 1..k |-> population[f[i]]] :
        f \in {g \in [1..k -> 1..Len(population)] :
                 \A i, j \in 1..k : i # j => g[i] # g[j]} }

SampleSize(sz, filtered) == Min(sz, Len(filtered))

Ids(songs) == [i \in 1..Len(songs) |-> songs[i].id]

----------------------------------------------------------------------------
(* /confirm_save_playlist helpers *)

(* ids[i:i+100] for i in range(0, len(ids), 100) *)
RECURSIVE ChunksFrom(_, _)
ChunksFrom(ids, i) ==
    IF i < Len(ids)
    THEN <<SubSeq(ids, i + 1, Min(i + CHUNK, Len(ids)))>> \o ChunksFrom(ids, i + CHUNK)
    ELSE <<>>

(* one append call with every id *)
ChunksUnsplit(ids) == IF ids = <<>> THEN <<>> ELSE <<ids>>

Chunks(ids) == ChunksFrom(ids, 0)

(* the provider calls of a save that runs to the end *)
SaveCalls(ids) ==
    << <<"me">>, <<"create">> >> \o [j \in 1..Len(Chunks(ids)) |-> <<"add", Chunks(ids)[j]>>]

(* a loop that goes on after a call raised *)
SaveCallsContinued(ids, failAt) == SaveCalls(ids)

(* the provider calls of a save whose failAt-th call raises: the exception *)
(* leaves the loop                                                         *)
SaveCallsUntil(ids, failAt) == SubSeq(SaveCalls(ids), 1, failAt)

(* a save of the selection of the latest /preview *)
IdsOfPreview(sess) == Get(sess.preview_ids, <<>>)

(* ids = session.get("pending_ids", []) *)
IdsToSave(sess) == Get(sess.pending_ids, <<>>)

(* a save that forgets the pop *)
AfterSaveKept(sess) == sess

(* session.pop("pending_ids", None) *)
AfterSave(sess) == [sess EXCEPT !.pending_ids = None]

----------------------------------------------------------------------------
(* The handlers.  op.outcome is how the request ended:                     *)
(*   "ok"        the page the handler is for                               *)
(*   "login"     redirect(url_for("login"))                                *)
(*   "empty"     one of the "No ... found" messages                        *)
(*   "failed"    "Failed to create playlist: ..."                          *)
(*   anything else: the exception that left the handler (a 500 response)   *)
(* op.raised is the index in calls of the provider call that raised, 0 if  *)
(* none did.                                                               *)

NoSession == [token_info |-> None, preview_ids |-> None, pending_ids |-> None]

NoCache == [batch |-> None, stamp |-> 0]

Respond(name, s, outcome, sess, c, r) ==
    /\ op' = [name |-> name, sess |-> s, outcome |-> outcome, raised |-> r]
    /\ session' = [session EXCEPT ![s] = sess]
    /\ calls' = c
    /\ saved' = IF outcome # "ok" THEN saved
                ELSE IF name = "preview" THEN saved \ {s}
                ELSE IF name = "confirm_save_playlist" THEN saved \cup {s}
                ELSE saved

Globals == [batch |-> batch, stamp |-> stamp, producer |-> producer]

Entry(s, cache) ==
    entry' = [now |-> clock, session |-> session[s], cache |-> cache,
              saved |-> s \in saved, globals |-> Globals]

(* a browser with no request in progress *)
IdleThread ==
    [pc |-> "idle", user |-> "", now |-> 0, offset |-> 0, limit |-> 0, fetched |-> 0,
     tracks |-> <<>>, songs |-> None, outcome |-> "", in_cache |-> TRUE]

Tick ==
    /\ clock + TickStep <= StartClock + MaxTicks * TickStep
    /\ clock' = clock + TickStep
    /\ UNCHANGED <<library, expires_in, batch, stamp, session, op, size, calls, ret, entry,
                   saved, producer, thread>>

(* /callback: the provider exchanges the code for a token, or the call     *)
(* raises.  A request without code (400) and /login (a redirect) change    *)
(* nothing and are left out.                                               *)
Callback(s) ==
    /\ \/ \E u \in Users, e \in expires_in :
            Respond("callback", s, "ok",
                    [session[s] EXCEPT !.token_info =
                                        Some(NewToken(u, clock, e, session[s].token_info))],
                    << <<"token">> >>, 0)
       \/ Respond("callback", s, "SpotifyOauthError", session[s], << <<"token">> >>, 1)
    /\ Entry(s, None)
    /\ size' = None /\ ret' = None
    /\ UNCHANGED <<clock, library, expires_in, batch, stamp, producer, thread>>

(* a logout that empties the session *)
AfterLogoutCleared(sess) == NoSession

(* session.pop("token_info", None) *)
AfterLogout(sess) == [sess EXCEPT !.token_info = None]

(* /logout *)
Logout(s) ==
    /\ Respond("logout", s, "ok", AfterLogout(session[s]), <<>>, 0)
    /\ Entry(s, None)
    /\ size' = None /\ ret' = None
    /\ UNCHANGED <<clock, library, expires_in, batch, stamp, producer, thread>>

(* / *)
Index(s) ==
    /\ \E a \in TokenAnswers(session[s].token_info, clock) :
        LET g == get_token(session[s].token_info, clock, a)
        IN  Respond("index", s, IF g.raised THEN "SpotifyOauthError" ELSE "ok",
                    [session[s] EXCEPT !.token_info = g.store], g.calls,
                    IF g.raised THEN 1 ELSE 0)
    /\ Entry(s, None)
    /\ size' = None /\ ret' = None
    /\ UNCHANGED <<clock, library, expires_in, batch, stamp, producer, thread>>

(* /preview with the size field form *)
Preview(s, form) ==
    /\ \E a \in TokenAnswers(session[s].token_info, clock) :
        LET g    == get_token(session[s].token_info, clock, a)
            sess == [session[s] EXCEPT !.token_info = g.store]
            sz   == RequestedSize(form)
        IN  IF g.raised
            THEN /\ Respond("preview", s, "SpotifyOauthError", sess, g.calls, 1)
                 /\ Entry(s, None) /\ ret' = None /\ UNCHANGED <<batch, stamp, producer>>
            ELSE IF g.token = None
            THEN /\ Respond("preview", s, "login", sess, g.calls, 0)
                 /\ Entry(s, None) /\ ret' = None /\ UNCHANGED <<batch, stamp, producer>>
            ELSE IF sz = None
            THEN /\ Respond("preview", s, "ValueError: int", sess, g.calls, 0)
                 /\ Entry(s, None) /\ ret' = None /\ UNCHANGED <<batch, stamp, producer>>
            ELSE \E ch \in FetchChoices(TokenUser(g.token[1]), clock) :
                 \E f \in {fetch_random_liked_songs(TokenUser(g.token[1]), clock,
                                                    ch[1], ch[2])} :
                 \E filtered \in {Filtered(f.tracks)} :
                 LET k == SampleSize(sz[1], filtered)
                 IN  /\ batch' = f.batch /\ stamp' = f.stamp
                     /\ producer' = IF CacheHit(clock) \/ f.raised THEN producer
                                    ELSE Some([sess |-> s, now |-> clock])
                     /\ Entry(s, Some([batch |-> batch, stamp |-> stamp]))
                     /\ IF f.raised
                        THEN /\ Respond("preview", s, "SpotifyException", sess,
                                        g.calls \o f.calls, Len(g.calls \o f.calls))
                             /\ ret' = None
                        ELSE IF f.tracks = <<>>
                        THEN /\ Respond("preview", s, "empty", sess, g.calls \o f.calls, 0)
                             /\ ret' = Some(f.tracks)
                        ELSE IF k < 0
                        THEN /\ Respond("preview", s, "ValueError: sample", sess,
                                        g.calls \o f.calls, 0)
                             /\ ret' = Some(f.tracks)
                        ELSE \E selection \in Samples(filtered, k) :
                             /\ Respond("preview", s, "ok",
                                        [sess EXCEPT !.preview_ids = Some(Ids(selection))],
                                        g.calls \o f.calls, 0)
                             /\ ret' = Some(f.tracks)
    /\ size' = form
    /\ UNCHANGED <<clock, library, expires_in, thread>>

(* /create_playlist: get_token(), then ensure_spotify_client() calls it again *)
CreatePlaylist(s) ==
    /\ \E a1 \in TokenAnswers(session[s].token_info, clock) :
        LET g1 == get_token(session[s].token_info, clock, a1)
        IN  IF g1.raised
            THEN Respond("create_playlist", s, "SpotifyOauthError", session[s], g1.calls, 1)
            ELSE IF g1.token = None
            THEN Respond("create_playlist", s, "login", session[s], g1.calls, 0)
            ELSE \E a2 \in TokenAnswers(g1.store, clock) :
                 LET g2   == get_token(g1.store, clock, a2)
                     sess == [session[s] EXCEPT !.token_info = g2.store]
                     ids  == Get(session[s].preview_ids, <<>>)
                 IN  IF g2.raised
                     THEN Respond("create_playlist", s, "SpotifyOauthError", sess,
                                  g1.calls \o g2.calls, Len(g1.calls \o g2.calls))
                     ELSE IF ids = <<>>
                     THEN Respond("create_playlist", s, "empty", sess, g1.calls \o g2.calls, 0)
                     ELSE Respond("create_playlist", s, "ok",
                                  [sess EXCEPT !.pending_ids = Some(ids)],
                                  g1.calls \o g2.calls, 0)
    /\ Entry(s, None)
    /\ size' = None /\ ret' = None
    /\ UNCHANGED <<clock, library, expires_in, batch, stamp, producer, thread>>

(* /confirm_save_playlist.  failAt is the index of the provider call that  *)
(* raises (0: none): 1 is current_user, 2 user_playlist_create, 2 + j the  *)
(* j-th playlist_add_items.                                                *)
ConfirmSavePlaylist(s) ==
    /\ \E a \in TokenAnswers(session[s].token_info, clock) :
        LET g    == get_token(session[s].token_info, clock, a)
            sess == [session[s] EXCEPT !.token_info = g.store]
            ids  == IdsToSave(session[s])
        IN  IF g.raised
            THEN Respond("confirm_save_playlist", s, "SpotifyOauthError", sess, g.calls, 1)
            ELSE IF ids = <<>>
            THEN Respond("confirm_save_playlist", s, "empty", sess, g.calls, 0)
            ELSE IF g.token = None
            THEN Respond("confirm_save_playlist", s, "AttributeError", sess, g.calls, 0)
            ELSE \E failAt \in 0..Len(SaveCalls(ids)) :
                 IF failAt = 0
                 THEN Respond("confirm_save_playlist", s, "ok", AfterSave(sess),
                              g.calls \o SaveCalls(ids), 0)
                 ELSE Respond("confirm_save_playlist", s,
                              IF failAt = 1 THEN "SpotifyException" ELSE "failed", sess,
                              g.calls \o SaveCallsUntil(ids, failAt),
                              Len(g.calls) + failAt)
    /\ Entry(s, None)
    /\ size' = None /\ ret' = None
    /\ UNCHANGED <<clock, library, expires_in, batch, stamp, producer, thread>>

----------------------------------------------------------------------------
(* /preview one statement at a time, for requests that run concurrently.   *)
(* thread[s].pc is the line of src/app.py the request of browser s is      *)
(* about to execute; user, now, offset, limit, fetched, tracks and songs   *)
(* are its locals.  outcome is how its last request ended and in_cache     *)
(* whether the selection it stored was, at that moment, part of            *)
(* CACHED_RANDOM_BATCH.                                                    *)

At(s, line) == thread[s].pc = line

Goto(s, line, locals) == thread' = [thread EXCEPT ![s] = [locals EXCEPT !.pc = line]]

Done(s, outcome, in_cache) ==
    thread' = [thread EXCEPT ![s] = [IdleThread EXCEPT !.outcome = outcome,
                                                       !.in_cache = in_cache]]

History == <<op, size, calls, ret, entry, saved>>

(* lines 536-540: ensure_spotify_client() and the size field (absent) *)
PreviewEnter(s) ==
    /\ At(s, "idle")
    /\ \E a \in TokenAnswers(session[s].token_info, clock) :
        LET g == get_token(session[s].token_info, clock, a)
        IN  /\ session' = [session EXCEPT ![s].token_info = g.store]
            /\ IF g.raised THEN Done(s, "SpotifyOauthError", TRUE)
               ELSE IF g.token = None THEN Done(s, "login", TRUE)
               ELSE Goto(s, "61", [IdleThread EXCEPT !.user = TokenUser(g.token[1])])
    /\ UNCHANGED <<clock, library, expires_in, batch, stamp, producer, History>>

(* line 61: now = time.time() *)
FetchNow(s) ==
    /\ At(s, "61")
    /\ Goto(s, "62", [thread[s] EXCEPT !.now = clock])
    /\ UNCHANGED <<clock, library, expires_in, batch, stamp, producer, session, History>>

(* line 62: the cache test *)
FetchTest(s) ==
    /\ At(s, "62")
    /\ Goto(s, IF CacheHit(thread[s].now) THEN "64" ELSE "66", thread[s])
    /\ UNCHANGED <<clock, library, expires_in, batch, stamp, producer, session, History>>

(* line 64: return CACHED_RANDOM_BATCH *)
FetchReturnCached(s) ==
    /\ At(s, "64")
    /\ Goto(s, "542", [thread[s] EXCEPT !.songs = batch])
    /\ UNCHANGED <<clock, library, expires_in, batch, stamp, producer, session, History>>

(* lines 66-77: the size query (which can raise), offset, limit, tracks = [] *)
FetchMeta(s) ==
    /\ At(s, "66")
    /\ \/ \E o \in FetchOffsets(SavedTracksTotal(thread[s].user), BATCH_SIZE) :
            Goto(s, "78", [thread[s] EXCEPT
                !.offset = o,
                !.limit = FetchLimit(SavedTracksTotal(thread[s].user), BATCH_SIZE),
                !.fetched = 0, !.tracks = <<>>])
       \/ Done(s, "SpotifyException", TRUE)
    /\ UNCHANGED <<clock, library, expires_in, batch, stamp, producer, session, History>>

(* lines 78-93: one turn of the while loop (the page request can raise) *)
FetchPage(s) ==
    /\ At(s, "78")
    /\ IF thread[s].fetched < thread[s].limit
       THEN LET b == Min(PAGE_CAP, thread[s].limit - thread[s].fetched)
            IN  \/ Goto(s, "78", [thread[s] EXCEPT
                        !.tracks = @ \o PageTracks(SavedTracksItems(thread[s].user, b,
                                            thread[s].offset + thread[s].fetched)),
                        !.fetched = @ + b])
                \/ Done(s, "SpotifyException", TRUE)
       ELSE Goto(s, "95", thread[s])
    /\ UNCHANGED <<clock, library, expires_in, batch, stamp, producer, session, History>>

(* line 95: CACHED_RANDOM_BATCH = tracks *)
FetchStoreBatch(s) ==
    /\ At(s, "95")
    /\ batch' = Some(thread[s].tracks)
    /\ producer' = Some([sess |-> s, now |-> thread[s].now])
    /\ Goto(s, "96", thread[s])
    /\ UNCHANGED <<clock, library, expires_in, stamp, session, History>>

(* line 96: CACHED_RANDOM_TIMESTAMP = now *)
FetchStoreStamp(s) ==
    /\ At(s, "96")
    /\ stamp' = thread[s].now
    /\ Goto(s, "99", thread[s])
    /\ UNCHANGED <<clock, library, expires_in, batch, producer, session, History>>

(* line 99: return tracks *)
FetchReturn(s) ==
    /\ At(s, "99")
    /\ Goto(s, "542", [thread[s] EXCEPT !.songs = Some(thread[s].tracks)])
    /\ UNCHANGED <<clock, library, expires_in, batch, stamp, producer, session, History>>

(* lines 542-556: the selection out of songs, stored in the session *)
PreviewSelect(s) ==
    /\ At(s, "542")
    /\ IF thread[s].songs[1] = <<>>
       THEN Done(s, "empty", TRUE) /\ UNCHANGED session
       ELSE \E filtered \in {Filtered(thread[s].songs[1])} :
            \E selection \in Samples(filtered, SampleSize(DEFAULT_SIZE, filtered)) :
                /\ session' = [session EXCEPT ![s].preview_ids = Some(Ids(selection))]
                /\ Done(s, "ok", /\ batch # None
                                 /\ Range(Ids(selection)) \subseteq Range(Ids(batch[1])))
    /\ UNCHANGED <<clock, library, expires_in, batch, stamp, producer, History>>

----------------------------------------------------------------------------
(* The application after start-up: nobody logged in, nothing cached *)

Start(browsers, libraries, lifetimes) ==
    /\ clock = StartClock
    /\ library \in libraries
    /\ expires_in = lifetimes
    /\ batch = None
    /\ stamp = 0
    /\ session = [s \in browsers |-> NoSession]
    /\ op = [name |-> "start", sess |-> "A", outcome |-> "ok", raised |-> 0]
    /\ size = None
    /\ calls = <<>>
    /\ ret = None
    /\ entry = [now |-> StartClock, session |-> NoSession, cache |-> None, saved |-> FALSE,
                globals |-> [batch |-> None, stamp |-> 0, producer |-> None]]
    /\ saved = {}
    /\ producer = None
    /\ thread = [s \in browsers |-> IdleThread]

(* One browser going through the whole workflow *)
Init ==
    Start({"A"}, {[u \in Users |-> IF u = "u1" THEN <<1, 2, 3>> ELSE <<4, 2>>]},
          {ShortLife, TokenLife})

Next ==
    \/ Tick
    \/ \E s \in DOMAIN session : Callback(s)
    \/ \E s \in DOMAIN session : Logout(s)
    \/ \E s \in DOMAIN session : Index(s)
    \/ \E s \in DOMAIN session : Preview(s, None)
    \/ \E s \in DOMAIN session : CreatePlaylist(s)
    \/ \E s \in DOMAIN session : ConfirmSavePlaylist(s)

Spec == Init /\ [][Next]_vars

(* Two browsers sharing the cache: logins of either user and previews *)
InitCache ==
    Start({"A", "B"}, {[u \in Users |-> IF u = "u1" THEN <<1, 3>> ELSE <<>>]},
          {TokenLife})

NextCache ==
    \/ Tick
    \/ \E s \in DOMAIN session : Callback(s)
    \/ \E s \in DOMAIN session : Logout(s)
    \/ \E s \in DOMAIN session : Preview(s, None)

SpecCache == InitCache /\ [][NextCache]_vars

(* One browser previewing every library with every size field *)
InitSelect == Start({"A"}, [Users -> Libraries], {TokenLife})

NextSelect ==
    \/ \E s \in DOMAIN session : Callback(s)
    \/ \E s \in DOMAIN session, form \in FormSizes : Preview(s, form)

SpecSelect == InitSelect /\ [][NextSelect]_vars

(* One browser about to confirm the save of a selection of up to MaxIds    *)
(* tracks: the state after /preview and /create_playlist.  The session is  *)
(* a signed cookie, so it outlives the process and with it the cache.      *)
IdList(n) == [i \in 1..n |-> i]

InitWrite ==
    \E n \in 1..MaxIds :
        /\ clock = StartClock
        /\ library = [u \in Users |-> <<>>]
        /\ expires_in = {TokenLife}
        /\ batch = None
        /\ stamp = 0
        /\ session = [s \in {"A"} |->
                        [token_info  |-> Some(NewToken("u1", StartClock, TokenLife, None)),
                         preview_ids |-> Some(IdList(n)),
                         pending_ids |-> Some(IdList(n))]]
        /\ op = [name |-> "create_playlist", sess |-> "A", outcome |-> "ok", raised |-> 0]
        /\ size = None
        /\ calls = <<>>
        /\ ret = None
        /\ entry = [now |-> StartClock,
                    session |-> [session["A"] EXCEPT !.pending_ids = None],
                    cache |-> None, saved |-> FALSE,
                    globals |-> [batch |-> None, stamp |-> 0, producer |-> None]]
        /\ saved = {}
        /\ producer = None
        /\ thread = [s \in {"A"} |-> IdleThread]

NextWrite ==
    \/ Tick
    \/ \E s \in DOMAIN session : ConfirmSavePlaylist(s)

SpecWrite == InitWrite /\ [][NextWrite]_vars

(* One browser that logs in once and previews libraries around the window *)
(* of BATCH_SIZE liked songs: the library of u1 has n tracks, none of them *)
(* with an artist.                                                         *)
MaxTotal == 501

(* a token that stays outside the refresh margin *)
LongLife == 3600

WindowTotals == {0, 1, 51, 400} \cup BATCH_SIZE..MaxTotal

WideLibrary(n) == [i \in 1..n |-> 4 + i]

InitWindow ==
    Start({"A"}, {[u \in Users |-> IF u = "u1" THEN WideLibrary(n) ELSE <<>>] :
                    n \in WindowTotals}, {LongLife})

NextWindow ==
    \/ Tick
    \/ \E s \in DOMAIN session : session[s].token_info = None /\ Callback(s)
    \/ \E s \in DOMAIN session : Preview(s, Some("1"))

SpecWindow == InitWindow /\ [][NextWindow]_vars

(* Two browsers, logged in once each, whose /preview requests interleave   *)
(* statement by statement                                                  *)
InitRace ==
    Start({"A", "B"}, {[u \in Users |-> IF u = "u1" THEN <<1, 3>> ELSE <<4, 2>>]},
          {LongLife})

NextRace ==
    \/ Tick
    \/ \E s \in DOMAIN session :
            At(s, "idle") /\ session[s].token_info = None /\ Callback(s)
    \/ \E s \in DOMAIN session : PreviewEnter(s)
    \/ \E s \in DOMAIN session : FetchNow(s)
    \/ \E s \in DOMAIN session : FetchTest(s)
    \/ \E s \in DOMAIN session : FetchReturnCached(s)
    \/ \E s \in DOMAIN session : FetchMeta(s)
    \/ \E s \in DOMAIN session : FetchPage(s)
    \/ \E s \in DOMAIN session : FetchStoreBatch(s)
    \/ \E s \in DOMAIN session : FetchStoreStamp(s)
    \/ \E s \in DOMAIN session : FetchReturn(s)
    \/ \E s \in DOMAIN session : PreviewSelect(s)

SpecRace == InitRace /\ [][NextRace]_vars

----------------------------------------------------------------------------
(* What the properties read off the state *)

CallsOf(api) == SelectSeq(calls, LAMBDA c : c[1] = api)

IsOp(name) == op.name = name

(* the last handler called fetch_random_liked_songs *)
GetPoolCalled == IsOp("preview") /\ entry.cache # None

CachedAtEntry == entry.cache[1].batch
AgeAtEntry == entry.now - entry.cache[1].stamp

StoredAtEntry == entry.session.token_info
PendingAtEntry == Get(entry.session.pending_ids, <<>>)

Selection == Get(session[op.sess].preview_ids, <<>>)

(* the spec's primary artist of a track: its first artist name *)
PrimaryArtist(id) == IF ArtistNames(id) = <<>> THEN "Unknown" ELSE ArtistNames(id)[1]

UniquePrimaryArtists(pool) == {PrimaryArtist(pool[i].id) : i \in 1..Len(pool)}

UniqueArtistStrings(pool) == {pool[i].artists : i \in 1..Len(pool)}

(* the items the provider holds for the playlist of the last save: the     *)
(* chunks of the append calls that did not raise                           *)
RemotePlaylist ==
    Concat([j \in 1..Len(SelectSeq(SubSeq(calls, 1, IF op.raised = 0 THEN Len(calls)
                                                     ELSE op.raised - 1),
                                   LAMBDA c : c[1] = "add")) |->
              SelectSeq(calls, LAMBDA c : c[1] = "add")[j][2]])

----------------------------------------------------------------------------
(* C1: a get_pool call that finds a cached batch younger than 60 s (stored *)
(* by an earlier call less than 60 s ago, not expired since) returns that  *)
(* batch and issues no provider call, whatever the batch, the empty one    *)
(* included.                                                               *)
C1_FreshBatchReused ==
    (GetPoolCalled /\ CachedAtEntry # None /\ AgeAtEntry < CACHE_EXPIRY_SECONDS)
        => (ret = CachedAtEntry /\ CallsOf("saved_tracks") = <<>>)

(* The part of C1 the code keeps: the same for a batch that is not empty.  *)
FreshNonEmptyBatchReused ==
    (GetPoolCalled /\ CachedAtEntry # None /\ AgeAtEntry < CACHE_EXPIRY_SECONDS
        /\ CachedAtEntry[1] # <<>>)
        => (ret = CachedAtEntry /\ CallsOf("saved_tracks") = <<>>)

(* C2: no two tracks of a stored selection share their primary artist.     *)
C2_NoSharedPrimaryArtist ==
    \A s \in DOMAIN session :
        LET ids == Get(session[s].preview_ids, <<>>)
        IN  \A i, j \in 1..Len(ids) :
                i # j => PrimaryArtist(ids[i]) # PrimaryArtist(ids[j])

(* The selection never holds two tracks with the same artists string.      *)
NoSharedArtistsString ==
    \A s \in DOMAIN session :
        LET ids == Get(session[s].preview_ids, <<>>)
        IN  \A i, j \in 1..Len(ids) :
                i # j => TrackDict(ids[i]).artists # TrackDict(ids[j]).artists

(* C3: a preview of pool P with size s >= 1 does not fail and selects      *)
(* min(s, number of primary artists of P) distinct tracks of P.            *)
C3_SelectionSize ==
    (GetPoolCalled /\ ret # None /\ RequestedSize(size) # None
        /\ RequestedSize(size)[1] >= 1)
        => /\ op.outcome \in {"ok", "empty"}
           /\ op.outcome = "ok" =>
                /\ Len(Selection) =
                     Min(RequestedSize(size)[1], Cardinality(UniquePrimaryArtists(ret[1])))
                /\ \A i, j \in 1..Len(Selection) : i # j => Selection[i] # Selection[j]
                /\ Range(Selection) \subseteq Range(Ids(ret[1]))

(* C4: a preview whose size field is not a number or is below 1 behaves as *)
(* a preview of size 1: it does not fail and selects min(1, unique) tracks. *)
C4_BadSizeCorrected ==
    (IsOp("preview") /\ size # None /\ StoredAtEntry # None
        /\ op.outcome \notin {"SpotifyOauthError", "SpotifyException"}
        /\ (RequestedSize(size) = None \/ RequestedSize(size)[1] < 1))
        => /\ op.outcome \in {"ok", "empty"}
           /\ op.outcome = "ok" =>
                Len(Selection) = Min(1, Cardinality(UniqueArtistStrings(ret[1])))

(* C5: a save that runs to its end appends the n ids in ceil(n/100) calls  *)
(* of at most 100 ids, in index order, that concatenate to the ids; the    *)
(* create call comes once, before every append call.                       *)
C5_ChunkedAppend ==
    /\ \A i \in 1..Len(calls) :
          calls[i][1] = "add" => \E j \in 1..(i - 1) : calls[j][1] = "create"
    /\ (IsOp("confirm_save_playlist") /\ op.outcome = "ok") =>
          LET ids  == PendingAtEntry
              n    == Len(ids)
              adds == CallsOf("add")
          IN  /\ Len(adds) = (n + CHUNK - 1) \div CHUNK
              /\ \A j \in 1..Len(adds) :
                    /\ Len(adds[j][2]) <= CHUNK
                    /\ adds[j][2] = SubSeq(ids, (j - 1) * CHUNK + 1, Min(j * CHUNK, n))
              /\ Concat([j \in 1..Len(adds) |-> adds[j][2]]) = ids
              /\ Len(CallsOf("create")) = 1

C5_Wrote250 ==
    /\ IsOp("confirm_save_playlist") /\ op.outcome = "ok"
    /\ Len(PendingAtEntry) = 250
    /\ [j \in 1..Len(CallsOf("add")) |-> Len(CallsOf("add")[j][2])] = <<100, 100, 50>>

(* C6: when an append call raises after k chunks were appended, the save   *)
(* ends in failure, the raising call is the last provider call, every      *)
(* chunk was sent at most once, the playlist holds the first k chunks, no  *)
(* other kind of call was issued and pending_ids is kept.                  *)
C6_PartialWriteKept ==
    (IsOp("confirm_save_playlist") /\ op.raised > 0 /\ calls[op.raised][1] = "add")
        => LET ids  == PendingAtEntry
               adds == CallsOf("add")
               k    == Len(adds) - 1
           IN  /\ op.outcome = "failed"
               /\ op.raised = Len(calls)
               /\ \A j \in 1..Len(adds) :
                     adds[j][2] = SubSeq(ids, (j - 1) * CHUNK + 1,
                                         Min(j * CHUNK, Len(ids)))
               /\ RemotePlaylist = SubSeq(ids, 1, Min(k * CHUNK, Len(ids)))
               /\ \A i \in 1..Len(calls) : calls[i][1] \in {"refresh", "me", "create", "add"}
               /\ Len(CallsOf("create")) = 1
               /\ session[op.sess].pending_ids = entry.session.pending_ids

C6_FailedAfterTwoChunks ==
    /\ IsOp("confirm_save_playlist") /\ op.outcome = "failed"
    /\ Len(CallsOf("add")) = 3 /\ op.raised = Len(calls)
    /\ Len(RemotePlaylist) = 2 * CHUNK

(* C7: a handler that calls get_token once issues one refresh call when    *)
(* the stored token has expires_at - now < 60 and none otherwise; after a  *)
(* refresh that did not raise the session holds the new token; without a   *)
(* refresh it holds the token it held.  /create_playlist calls get_token   *)
(* twice, each call under the same rule: the second refreshes the token    *)
(* the first stored when that one is within the margin too.  Handlers that *)
(* do not call get_token issue no refresh.                                 *)
WithinMargin(token) == token[1].expires_at - entry.now < REFRESH_MARGIN

NeedsRefreshAtEntry == StoredAtEntry # None /\ WithinMargin(StoredAtEntry)

RefreshedTokens(old) ==
    {Some(NewToken(old[1].refresh_token, entry.now, e, old)) : e \in expires_in}

C7_RefreshOnAccess ==
    /\ op.name \in {"index", "preview", "confirm_save_playlist"} =>
          /\ Len(CallsOf("refresh")) = IF NeedsRefreshAtEntry THEN 1 ELSE 0
          /\ (NeedsRefreshAtEntry /\ op.outcome # "SpotifyOauthError") =>
                /\ session[op.sess].token_info \in RefreshedTokens(StoredAtEntry)
                /\ session[op.sess].token_info # StoredAtEntry
          /\ (~NeedsRefreshAtEntry \/ op.outcome = "SpotifyOauthError") =>
                session[op.sess].token_info = StoredAtEntry
    /\ IsOp("create_playlist") =>
          LET n     == Len(CallsOf("refresh"))
              token == session[op.sess].token_info
              error == op.outcome = "SpotifyOauthError"
          IN  /\ ~NeedsRefreshAtEntry => (n = 0 /\ token = StoredAtEntry)
              /\ NeedsRefreshAtEntry =>
                    \/ n = 1 /\ error /\ token = StoredAtEntry
                    \/ n = 1 /\ ~error /\ token \in RefreshedTokens(StoredAtEntry)
                             /\ ~WithinMargin(token)
                    \/ n = 2 /\ error /\ token \in RefreshedTokens(StoredAtEntry)
                             /\ WithinMargin(token)
                    \/ n = 2 /\ ~error
                             /\ \E first \in RefreshedTokens(StoredAtEntry) :
                                   WithinMargin(first) /\ token \in RefreshedTokens(first)
    /\ op.name \in {"start", "callback", "logout"} => CallsOf("refresh") = <<>>

C7_Refreshed ==
    /\ IsOp("index") /\ op.outcome = "ok"
    /\ NeedsRefreshAtEntry
    /\ CallsOf("refresh") = << <<"refresh", StoredAtEntry[1].refresh_token>> >>
    /\ session[op.sess].token_info # StoredAtEntry

(* C8: with no token stored, /preview, /create_playlist and                *)
(* /confirm_save_playlist end in the redirect to the login, issue no       *)
(* provider call and leave session and cache as they were.                 *)
C8_NotAuthenticated ==
    (op.name \in {"preview", "create_playlist", "confirm_save_playlist"}
        /\ StoredAtEntry = None)
        => /\ op.outcome = "login"
           /\ calls = <<>>
           /\ session[op.sess] = entry.session
           /\ entry.cache = None

(* C9: a successful confirmed save leaves neither preview_ids nor          *)
(* pending_ids, and is never the second save of one preview.               *)
C9_SelectionCleared ==
    (IsOp("confirm_save_playlist") /\ op.outcome = "ok")
        => /\ session[op.sess].preview_ids = None
           /\ session[op.sess].pending_ids = None
           /\ ~entry.saved

(* C9 as amended: a successful confirmed save removes pending_ids and      *)
(* leaves preview_ids as it was; a /confirm_save_playlist that finds no    *)
(* pending_ids creates no playlist.                                        *)
C9_PendingCleared ==
    /\ (IsOp("confirm_save_playlist") /\ op.outcome = "ok") =>
          /\ session[op.sess].pending_ids = None
          /\ session[op.sess].preview_ids = entry.session.preview_ids
    /\ (IsOp("confirm_save_playlist") /\ PendingAtEntry = <<>>) =>
          /\ CallsOf("create") = <<>>
          /\ op.outcome # "ok"

C9_SavedAgain ==
    /\ IsOp("confirm_save_playlist") /\ op.outcome = "ok"
    /\ entry.saved
    /\ session[op.sess].pending_ids = None
    /\ session[op.sess].preview_ids = Some(PendingAtEntry)

(* C10: a get_pool call that finds no cached batch, or one of age >= 60 s, *)
(* issues at least one saved-tracks call, and when it returns the cache    *)
(* holds the batch it fetched from the caller's library, stamped with the  *)
(* time of the call.                                                       *)
C10_ExpiredBatchReplaced ==
    (GetPoolCalled /\ (CachedAtEntry = None \/ AgeAtEntry >= CACHE_EXPIRY_SECONDS))
        => /\ Len(CallsOf("saved_tracks")) >= 1
           /\ ret # None =>
                /\ batch = ret
                /\ stamp = entry.now
                /\ ret[1] = PageTracks(library[TokenUser(session[op.sess].token_info[1])])

C10_RefreshedAtBoundary ==
    /\ GetPoolCalled /\ CachedAtEntry # None /\ CachedAtEntry[1] # <<>>
    /\ AgeAtEntry = CACHE_EXPIRY_SECONDS
    /\ ret # None /\ batch = ret /\ stamp = entry.now
    /\ Len(CallsOf("saved_tracks")) >= 2

----------------------------------------------------------------------------
(* The fetch plan of a cache refresh *)

(* the last fetch_random_liked_songs call went to the provider *)
Refreshing == GetPoolCalled /\ CallsOf("saved_tracks") # <<>>

(* ... and every provider call answered *)
Refreshed == Refreshing /\ op.raised = 0

(* the user of the token the call presented, and the size of their library *)
PoolUser == TokenUser(session[op.sess].token_info[1])
Total == SavedTracksTotal(PoolUser)

(* the page requests: every saved_tracks call after the size query, as     *)
(* <<limit, offset>>                                                       *)
PageCalls ==
    [p \in 1..(Len(CallsOf("saved_tracks")) - 1) |->
        <<CallsOf("saved_tracks")[p + 1][2], CallsOf("saved_tracks")[p + 1][3]>>]

FirstOffset == PageCalls[1][2]

(* the library indices (from 0) a page request asks for *)
Asked(page) == page[2]..(page[2] + page[1] - 1)

AskedByAll == UNION {Asked(PageCalls[p]) : p \in 1..Len(PageCalls)}

(* each page starts where the page before it ended *)
Contiguous ==
    \A p \in 1..(Len(PageCalls) - 1) :
        PageCalls[p + 1][2] = PageCalls[p][2] + PageCalls[p][1]

(* C11: a cache refresh of a library of N <= BATCH_SIZE tracks starts at   *)
(* offset 0 and asks for exactly the N tracks of the library (it returns   *)
(* all of them); for N = 0 it asks for MIN_FETCH tracks from offset 0.     *)
C11_WholeLibrary ==
    (Refreshed /\ Total <= BATCH_SIZE) =>
        /\ Len(PageCalls) >= 1
        /\ FirstOffset = 0
        /\ Contiguous
        /\ \A p \in 1..Len(PageCalls) : PageCalls[p][1] >= 1
        /\ AskedByAll = 0..((IF Total = 0 THEN MIN_FETCH ELSE Total) - 1)
        /\ Total = 0 => PageCalls = << <<MIN_FETCH, 0>> >>
        /\ Ids(ret[1]) = library[PoolUser]

(* a refresh of a library of 400 tracks returned all of them *)
C11_Fetched400 == Refreshed /\ Total = 400 /\ Len(ret[1]) = 400 /\ Len(PageCalls) = 8

(* C12: a cache refresh of a library of N > BATCH_SIZE tracks picks an     *)
(* offset in 0..N - BATCH_SIZE; its page requests ask for at most PAGE_CAP *)
(* tracks each, each starting where the one before ended, none past index  *)
(* N; a refresh that runs to the end has issued ceil(BATCH_SIZE/PAGE_CAP)  *)
(* page requests that ask for exactly the indices offset .. offset +       *)
(* BATCH_SIZE - 1.                                                         *)
C12_WindowPaged ==
    (Refreshing /\ Total > BATCH_SIZE /\ Len(PageCalls) >= 1) =>
        /\ FirstOffset \in 0..(Total - BATCH_SIZE)
        /\ \A p \in 1..Len(PageCalls) : PageCalls[p][1] \in 1..PAGE_CAP
        /\ Contiguous
        /\ AskedByAll \subseteq 0..(Total - 1)
        /\ Len(PageCalls) <= (BATCH_SIZE + PAGE_CAP - 1) \div PAGE_CAP
        /\ Refreshed =>
            /\ Len(PageCalls) = (BATCH_SIZE + PAGE_CAP - 1) \div PAGE_CAP
            /\ AskedByAll = FirstOffset..(FirstOffset + BATCH_SIZE - 1)
            /\ Ids(ret[1]) = SubSeq(library[PoolUser], FirstOffset + 1,
                                     FirstOffset + BATCH_SIZE)

(* a refresh of a library of more than BATCH_SIZE tracks ran to the end    *)
(* from the last offset it can pick                                        *)
C12_LastWindow ==
    Refreshed /\ Total > BATCH_SIZE /\ FirstOffset = Total - BATCH_SIZE /\ Len(PageCalls) = 10

(* C17: when a provider call of a cache refresh raises (the size query or  *)
(* a page request), fetch_random_liked_songs raises: the handler ends with *)
(* the exception, CACHED_RANDOM_BATCH and CACHED_RANDOM_TIMESTAMP are what *)
(* they were when the request came in, the call that raised is the last    *)
(* provider call and no page was requested twice.                          *)
C17_FailedRefreshKeepsCache ==
    (Refreshing /\ op.raised > 0) =>
        /\ op.outcome = "SpotifyException"
        /\ ret = None
        /\ batch = entry.globals.batch
        /\ stamp = entry.globals.stamp
        /\ session[op.sess].preview_ids = entry.session.preview_ids
        /\ op.raised = Len(calls)
        /\ Contiguous
        /\ \A p, q \in 1..Len(PageCalls) : p # q => PageCalls[p] # PageCalls[q]

(* the third page request of a refresh raised while an expired batch was   *)
(* in the cache                                                            *)
C17_FailedAtThirdPage ==
    /\ Refreshing /\ op.raised > 0
    /\ Len(PageCalls) = 3
    /\ entry.globals.batch # None /\ Len(entry.globals.batch[1]) = BATCH_SIZE
    /\ batch = entry.globals.batch /\ stamp = entry.globals.stamp

----------------------------------------------------------------------------
(* A refresh the provider rejects *)

(* the last handler ended in the exception of a rejected refresh *)
RefreshRejected == op.outcome = "SpotifyOauthError" /\ ~IsOp("callback")

(* C13: when the provider rejects a refresh, get_token raises and the      *)
(* handler ends with the exception: the rejected refresh is the last       *)
(* provider call (it is not tried again and nothing is called after it),   *)
(* the token_info the rejected get_token found is still stored, and the    *)
(* cache, preview_ids and pending_ids are what they were when the request  *)
(* came in.  The token_info found is the one of the request's entry,       *)
(* except in /create_playlist when its first get_token had refreshed it.   *)
C13_RejectedRefreshKeepsState ==
    RefreshRejected =>
        /\ op.raised = Len(calls)
        /\ calls[Len(calls)][1] = "refresh"
        /\ \/ /\ Len(calls) = 1
              /\ session[op.sess].token_info = StoredAtEntry
           \/ /\ Len(calls) = 2 /\ IsOp("create_playlist")
              /\ calls[1][1] = "refresh"
              /\ session[op.sess].token_info \in RefreshedTokens(StoredAtEntry)
        /\ session[op.sess].preview_ids = entry.session.preview_ids
        /\ session[op.sess].pending_ids = entry.session.pending_ids
        /\ Globals = entry.globals
        /\ ret = None
        /\ ~GetPoolCalled

(* a /preview met a rejected refresh with a selection in the session and a *)
(* batch in the cache                                                      *)
C13_PreviewRejected ==
    /\ RefreshRejected /\ IsOp("preview")
    /\ entry.session.preview_ids # None
    /\ entry.globals.batch # None
    /\ session[op.sess] = entry.session

----------------------------------------------------------------------------
(* Which selection a confirmed save writes *)

ConfirmedSave == IsOp("confirm_save_playlist") /\ op.outcome = "ok"

PreviewAtEntry == Get(entry.session.preview_ids, <<>>)

(* C14 as claimed: the ids a confirmed save writes are the ids of the most *)
(* recent /preview of the session, in its order.                           *)
C14_SavesLatestPreview == ConfirmedSave => RemotePlaylist = PreviewAtEntry

(* C14: the ids a confirmed save writes are pending_ids, in order: the     *)
(* preview_ids that the latest successful /create_playlist copied.  Only   *)
(* /create_playlist and /confirm_save_playlist change pending_ids, so a    *)
(* /preview between the two changes preview_ids and not what is saved.     *)
C14_SavesPendingSelection ==
    /\ ConfirmedSave => (RemotePlaylist = PendingAtEntry /\ PendingAtEntry # <<>>)
    /\ (IsOp("create_playlist") /\ op.outcome = "ok") =>
          /\ session[op.sess].pending_ids = Some(PreviewAtEntry)
          /\ session[op.sess].preview_ids = entry.session.preview_ids
    /\ ~(IsOp("create_playlist") /\ op.outcome = "ok") /\ ~ConfirmedSave /\ ~IsOp("start") =>
          session[op.sess].pending_ids = entry.session.pending_ids

(* a confirmed save wrote the selection /create_playlist had copied, after *)
(* a later /preview had selected other tracks                              *)
C14_SavedEarlierPreview ==
    /\ ConfirmedSave
    /\ RemotePlaylist = PendingAtEntry
    /\ RemotePlaylist # PreviewAtEntry

----------------------------------------------------------------------------
(* /logout *)

(* C19: /logout removes token_info from the session and nothing else:      *)
(* preview_ids and pending_ids, CACHED_RANDOM_BATCH and                    *)
(* CACHED_RANDOM_TIMESTAMP are what they were when the request came in,    *)
(* and no provider call is issued.                                         *)
C19_LogoutRemovesOnlyToken ==
    IsOp("logout") =>
        /\ op.outcome = "ok"
        /\ session[op.sess].token_info = None
        /\ session[op.sess].preview_ids = entry.session.preview_ids
        /\ session[op.sess].pending_ids = entry.session.pending_ids
        /\ batch = entry.globals.batch
        /\ stamp = entry.globals.stamp
        /\ calls = <<>>

(* a logged-in browser with a selection, a pending save and a batch in the *)
(* cache logged out                                                        *)
C19_LoggedOutMidSave ==
    /\ IsOp("logout")
    /\ StoredAtEntry # None
    /\ session[op.sess].preview_ids # None
    /\ session[op.sess].pending_ids # None
    /\ batch # None

----------------------------------------------------------------------------
(* One cache for every session *)

(* the call that had stored the batch the last fetch_random_liked_songs    *)
(* call found                                                              *)
ProducerAtEntry == entry.globals.producer

(* the last fetch_random_liked_songs call found a batch that another       *)
(* browser's call had fetched less than CACHE_EXPIRY_SECONDS before        *)
FoundFreshBatchOfOther ==
    /\ GetPoolCalled
    /\ ProducerAtEntry # None
    /\ ProducerAtEntry[1].sess # op.sess
    /\ CachedAtEntry # None
    /\ entry.cache[1].stamp = ProducerAtEntry[1].now
    /\ entry.now - ProducerAtEntry[1].now < CACHE_EXPIRY_SECONDS

(* C18: a fetch_random_liked_songs call of browser B less than             *)
(* CACHE_EXPIRY_SECONDS after the fetch of browser A returns the batch A   *)
(* fetched and issues no provider call, whoever the token B presents       *)
(* belongs to and whether or not A has logged out since.                   *)
C18_SharedAcrossSessions ==
    FoundFreshBatchOfOther => (ret = CachedAtEntry /\ CallsOf("saved_tracks") = <<>>)

(* The part of C18 the code keeps: the same for a batch that is not empty. *)
SharedNonEmptyBatchReused ==
    (FoundFreshBatchOfOther /\ CachedAtEntry[1] # <<>>)
        => (ret = CachedAtEntry /\ CallsOf("saved_tracks") = <<>>)

(* browser B, logged in as another user, was served the batch that A had   *)
(* fetched before logging out                                              *)
SharedAfterLogout ==
    /\ FoundFreshBatchOfOther /\ CachedAtEntry[1] # <<>>
    /\ session[ProducerAtEntry[1].sess].token_info = None
    /\ Ids(ret[1]) # library[PoolUser]
    /\ CallsOf("saved_tracks") = <<>>

----------------------------------------------------------------------------
(* Concurrent /preview requests *)

(* the batches a fetch that runs to its end can produce *)
CompleteBatches ==
    {FetchTracks(u, o) : u \in Users, o \in UNION {FetchOffsets(SavedTracksTotal(v), BATCH_SIZE) :
                                                    v \in Users}}

(* no call is between its two stores *)
NoStoreHalfDone == \A s \in DOMAIN thread : ~At(s, "96")

(* C15: at the moment a /preview stores its selection, every selected id   *)
(* is the id of a track of the batch CACHED_RANDOM_BATCH holds, also when  *)
(* another request refreshed the cache while the /preview was in progress. *)
C15_SelectionFromCachedBatch ==
    \A s \in DOMAIN thread :
        (At(s, "idle") /\ thread[s].outcome = "ok") => thread[s].in_cache

(* The part of C15 the code keeps: a /preview that no other request        *)
(* overlaps selects from the batch the cache holds.                        *)
SelectionFromBatchWhenAlone ==
    (IsOp("preview") /\ op.outcome = "ok") =>
        (batch # None /\ Range(Selection) \subseteq Range(Ids(batch[1])))

(* C16: however two fetch_random_liked_songs calls interleave,             *)
(* CACHED_RANDOM_BATCH holds the complete tracks list of one call, and,    *)
(* unless a call is between its two stores, CACHED_RANDOM_TIMESTAMP is the *)
(* now of the call whose list it holds.                                    *)
C16_BatchAndStampOfOneCall ==
    batch # None =>
        /\ batch[1] \in CompleteBatches
        /\ producer # None
        /\ NoStoreHalfDone => stamp = producer[1].now

(* The part of C16 the code keeps: the batch is the complete list of one   *)
(* call.                                                                   *)
BatchOfOneCall == batch # None => (producer # None /\ batch[1] \in CompleteBatches)

(* The stamp is the now of some call that stored, never a value in between *)
StampOfSomeCall ==
    stamp = 0 \/ \E n \in 0..MaxTicks : stamp = StartClock + n * TickStep

============================================================================
